---- MODULE Spec2Model ----
(***************************************************************************)
(* Token lifecycle of the Money Lover MCP server (src/src/server.js, with  *)
(* the token store and the REST client of src/src/tokenCache.js).          *)
(*                                                                         *)
(* JavaScript runs the handlers on one thread; a handler gives up control  *)
(* only at an await.  Every action below is one such run-to-completion     *)
(* segment: from the resumption of an await to the next await.  File and   *)
(* network I/O complete in any order, so the effect of an I/O on the disk  *)
(* and the resumption of the code that awaited it are separate steps.      *)
(*                                                                         *)
(* Strings are tuples of character codes (0 is the space, 1..26 the lower  *)
(* case letters, 101..126 the upper case letters, larger codes opaque      *)
(* characters); undefined/null is the one value Undefined.                 *)
(***************************************************************************)
EXTENDS Integers, Sequences, FiniteSets, TLC

\* ------------------------------------------------------------------ bounds
\* Runs of runWithResolvedToken started in one behaviour.
MaxRuns == 2
\* Authentication exchanges (MoneyloverClient.getToken calls) in one behaviour.
MaxExch == 4
\* Store calls in one behaviour of the store on its own.
MaxOps == 3
\* Calls of the login tool in one behaviour.
MaxLogins == 1
\* Calls of getToken in one behaviour of the client on its own.
MaxGets == 2

\* The concurrent tool calls in flight: two callers.
Procs == {"A", "B"}

\* ------------------------------------------------------------ JS values
Undefined == <<-1>>
Empty == <<>>
SP == <<0>>

\* !value for a string or undefined/null.
Falsy(v) == v = Undefined \/ v = Empty

RECURSIVE TrimStart(_)
TrimStart(s) == IF Len(s) > 0 /\ Head(s) = 0 THEN TrimStart(Tail(s)) ELSE s

RECURSIVE TrimEnd(_)
TrimEnd(s) == IF Len(s) > 0 /\ s[Len(s)] = 0 THEN TrimEnd(SubSeq(s, 1, Len(s) - 1)) ELSE s

\* String.prototype.trim
Trim(s) == TrimEnd(TrimStart(s))

\* String.prototype.toLowerCase on the letters of the encoding.
ToLowerCase(s) == [i \in 1..Len(s) |-> IF s[i] >= 101 /\ s[i] <= 126 THEN s[i] - 100 ELSE s[i]]

\* String.prototype.includes
Includes(s, sub) == \E i \in 0..(Len(s) - Len(sub)) : SubSeq(s, i + 1, i + Len(sub)) = sub

\* The literals 'unauth' and 'token' of isAuthError.
StrUnauth == <<21, 14, 1, 21, 20, 8>>
StrToken == <<20, 15, 11, 5, 14>>

\* ------------------------------------------------------------ values in use
\* The account of the configuration and its password.
EmailX == <<24>>
PasswordX == <<16>>
\* The values of MONEYLOVER_TOKEN and MONEY_LOVER_TOKEN when set.
DirectA == <<41>>
DirectB == <<42>>
\* A token passed as the tool argument.
ExplicitTok == <<30>>
\* A token left in the store by an earlier process.
StaleTok == <<50>>
\* The access token the token endpoint hands out in exchange i.
AccessToken(i) == <<50 + i>>

Emails == {EmailX}

\* A second account, and the accounts the store is exercised with.
EmailY == <<25>>
\* A token left in the store for the second account.
StaleTokY == <<49>>
StoreEmails == {EmailX, EmailY}

\* process.env after the env file was applied: the four keys getEnvConfig reads.
EnvConfigs ==
  [EMAIL : {Undefined, <<0, 24, 0>>},
   PASSWORD : {Undefined, PasswordX},
   MONEYLOVER_TOKEN : {Undefined, SP, DirectA},
   MONEY_LOVER_TOKEN : {Undefined, DirectB}]

\* ------------------------------------------------------------ errors
NoCode == [type |-> "null", val |-> 0]
NumCode(n) == [type |-> "number", val |-> n]

ApiError(msg, code) == [name |-> "MoneyloverApiError", code |-> code, message |-> msg]
PlainError(msg) == [name |-> "Error", code |-> NoCode, message |-> msg]
\* Not an error: the value of a call that returned.
Ok == [name |-> "ok", code |-> NoCode, message |-> Empty]
None == [name |-> "none", code |-> NoCode, message |-> Empty]

\* 'Token is required. Provide a token parameter or set EMAIL/PASSWORD, ...'
missingTokenError == PlainError(<<120, 15, 11, 5, 14, 0, 18, 5, 17>>)

\* Errors of MoneyloverClient.getToken, by the line that throws them.
ErrInitiateLogin == PlainError(<<201>>)
ErrLoginMissing == PlainError(<<202>>)
ErrNoClient == PlainError(<<203>>)
ErrRetrieveToken == PlainError(<<204>>)
ErrNoAccessToken == PlainError(<<205>>)

\* What the operation (fn) can throw: an API error with the unauthenticated
\* code, an API error with another code, and a transport error whose text
\* happens to mention a token.
OpErrors ==
  {ApiError(<<24>>, NumCode(1)),
   ApiError(<<24>>, NumCode(2)),
   PlainError(<<120, 15, 11, 5, 14>>)}

\* A code that is a string, as payload.error can be ("1") and as the codes of
\* Node's system errors are.
StrCode(n) == [type |-> "string", val |-> n]

\* Texts of errors: one that says nothing, ' Unauthorized', 'Token', 'tok'.
Messages == {<<24>>, <<0, 121, 14, 1, 21, 20, 8>>, <<120, 15, 11, 5, 14>>, <<20, 15, 11>>}

\* Errors by shape: thrown by parseApiPayload (MoneyloverApiError) or by
\* anything else (Error: fetch, HTTP status, validation), with the codes and
\* the texts above.
ErrorSamples ==
  {[name |-> n, code |-> c, message |-> m] :
     n \in {"MoneyloverApiError", "Error"},
     c \in {NoCode, NumCode(1), NumCode(401), NumCode(2), StrCode(1)},
     m \in Messages}

\* isAuthError without the instanceof test.
isAuthError_AnyError(error) ==
  IF error.code.type = "number" /\ (error.code.val = 1 \/ error.code.val = 401) THEN TRUE
  ELSE LET message == ToLowerCase(error.message)
       IN Includes(message, StrUnauth) \/ Includes(message, StrToken)

isAuthError(error) ==
  IF error.name # "MoneyloverApiError" THEN FALSE
  ELSE IF error.code.type = "number" /\ (error.code.val = 1 \/ error.code.val = 401) THEN TRUE
  ELSE LET message == ToLowerCase(error.message)
       IN Includes(message, StrUnauth) \/ Includes(message, StrToken)


\* ------------------------------------------------------------ token store
\* Buffer.from(email, 'utf8').toString('base64url'): every three bytes give
\* four digits of six bits, the last group is cut short and not padded.
RECURSIVE encodeEmail(_)
encodeEmail(email) ==
  IF Len(email) = 0 THEN <<>>
  ELSE IF Len(email) = 1
    THEN <<email[1] \div 4, (email[1] % 4) * 16>>
  ELSE IF Len(email) = 2
    THEN <<email[1] \div 4, (email[1] % 4) * 16 + email[2] \div 16, (email[2] % 16) * 4>>
  ELSE <<email[1] \div 4, (email[1] % 4) * 16 + email[2] \div 16,
         (email[2] % 16) * 4 + email[3] \div 64, email[3] % 64>>
       \o encodeEmail(SubSeq(email, 4, Len(email)))

\* getTokenPath that keeps the first digit of the encoded name only.
getTokenPath_Prefix(email) == SubSeq(encodeEmail(email), 1, 1)

\* path.join(CACHE_DIR, `${encodeEmail(email)}.json`): the directory and the
\* suffix are the same for every record, the encoded name tells them apart.
getTokenPath(email) == encodeEmail(email)

Paths == {getTokenPath(e) : e \in Emails}

\* A file of the cache directory: absent, or the payload writeToken stored
\* (updatedAt is written and never read).
NoFile == [token |-> Undefined]
Payload(token) == [token |-> token]
\* A file that is not JSON: JSON.parse throws a SyntaxError, which has no code.
Corrupt == [token |-> <<-2>>]

\* The mark of an I/O that threw, in the place of its result.
Failed == <<-2>>

\* The value readToken returns; Failed when it throws (tokenCache.js:34).
readToken(files, email) ==
  IF Falsy(email) THEN Undefined
  ELSE LET data == files[getTokenPath(email)]
           token == data.token
       IN IF data = Corrupt THEN Failed
          ELSE IF token # Undefined /\ ~Falsy(token) THEN token ELSE Undefined

\* writeToken without the test of its arguments.
writeToken_NoGuard(files, email, token) ==
  IF Falsy(email) THEN [p \in DOMAIN files |-> Payload(token)]
  ELSE [files EXCEPT ![getTokenPath(email)] = Payload(token)]

\* writeToken that stores nothing.
writeToken_Noop(files, email, token) == files

writeToken(files, email, token) ==
  IF Falsy(email) \/ Falsy(token) THEN files
  ELSE [files EXCEPT ![getTokenPath(email)] = Payload(token)]

\* removeToken that leaves the record where it is.
removeToken_Noop(files, email) == files

removeToken(files, email) ==
  IF Falsy(email) THEN files
  ELSE [files EXCEPT ![getTokenPath(email)] = NoFile]

\* ------------------------------------------------------------ configuration
\* process.env[key]?.trim()
TrimOpt(v) == IF v = Undefined THEN Undefined ELSE Trim(v)

\* .find(Boolean) ?? '' over the two direct-token keys, in their order.
FirstTruthy(vs) ==
  IF \E i \in 1..Len(vs) : ~Falsy(vs[i])
  THEN vs[CHOOSE i \in 1..Len(vs) : ~Falsy(vs[i]) /\ \A j \in 1..(i - 1) : Falsy(vs[j])]
  ELSE Empty

getEnvConfig(e) ==
  [email |-> IF TrimOpt(e.EMAIL) = Undefined THEN Empty ELSE TrimOpt(e.EMAIL),
   password |-> IF TrimOpt(e.PASSWORD) = Undefined THEN Empty ELSE TrimOpt(e.PASSWORD),
   directToken |-> FirstTruthy(<<TrimOpt(e.MONEYLOVER_TOKEN), TrimOpt(e.MONEY_LOVER_TOKEN)>>)]

\* The preprocess step of tokenSchema; z.string().min(1).optional() accepts
\* every value it yields here.
tokenSchema(value) ==
  IF value # Undefined
  THEN LET trimmed == Trim(value) IN IF trimmed = Empty THEN Undefined ELSE trimmed
  ELSE value

\* The token argument as the caller wrote it.
RawTokens == {Undefined, Empty, SP, ExplicitTok, <<0, 30>>}


\* ------------------------------------------------------------ state
VARIABLES
  env,                        \* process.env (the keys of EnvConfigs)
  files,                      \* the files of ~/.moneylover-mcp, by path
  cachedEnvEmail,             \* server.js:105
  cachedEnvToken,             \* server.js:106
  envTokenPromise,            \* server.js:107; 0 is null, i the promise of exchange i
  cacheLoaded,                \* server.js:108
  cachedEnvUsesDirectToken,   \* server.js:109
  exch,                       \* the getToken calls and their .then/.catch chain
  pc,                         \* where each caller's runWithResolvedToken stands
  lcl,                        \* the locals of each caller's run
  log,                        \* what each run has called so far, in order
  result,                     \* what each run returned or threw
  runs,                       \* runs started so far
  overlap,                    \* some run started while another was under way
  forced                      \* some run has called fetchEnvToken(true)

cacheVars == <<cachedEnvEmail, cachedEnvToken, envTokenPromise, cacheLoaded, cachedEnvUsesDirectToken>>
vars == <<env, files, cachedEnvEmail, cachedEnvToken, envTokenPromise, cacheLoaded,
          cachedEnvUsesDirectToken, exch, pc, lcl, log, result, runs, overlap, forced>>

Ev(kind, a, b) == [ev |-> kind, a |-> a, b |-> b]
Flag(b) == IF b THEN <<1>> ELSE <<0>>

NoExch ==
  [st |-> "none", email |-> Empty, password |-> Empty, by |-> "", token |-> Undefined,
   error |-> None]
NoLocals ==
  [arg |-> Undefined, tool |-> FALSE, usedEnvToken |-> FALSE, forceRefresh |-> FALSE,
   email |-> Empty, password |-> Empty, directToken |-> Empty, storedToken |-> Undefined,
   awaiting |-> 0, token |-> Undefined, error |-> None, outcomes |-> <<>>]

\* The exchanges whose getToken call has not settled.
InFlight(ex) == {i \in DOMAIN ex : ex[i].st \in {"login", "token"}}
Started(ex) == {i \in DOMAIN ex : ex[i].st # "none"}

\* The part of the state one segment of caller p's code reads and writes.
View(p) ==
  [ok |-> TRUE,
   cachedEnvEmail |-> cachedEnvEmail, cachedEnvToken |-> cachedEnvToken,
   envTokenPromise |-> envTokenPromise, cacheLoaded |-> cacheLoaded,
   cachedEnvUsesDirectToken |-> cachedEnvUsesDirectToken,
   exch |-> exch, pc |-> pc[p], l |-> lcl[p], log |-> log[p], result |-> result[p]]

Commit(p, s) ==
  /\ s.ok
  /\ cachedEnvEmail' = s.cachedEnvEmail
  /\ cachedEnvToken' = s.cachedEnvToken
  /\ envTokenPromise' = s.envTokenPromise
  /\ cacheLoaded' = s.cacheLoaded
  /\ cachedEnvUsesDirectToken' = s.cachedEnvUsesDirectToken
  /\ exch' = s.exch
  /\ pc' = [pc EXCEPT ![p] = s.pc]
  /\ lcl' = [lcl EXCEPT ![p] = s.l]
  /\ log' = [log EXCEPT ![p] = s.log]
  /\ result' = [result EXCEPT ![p] = s.result]

\* ------------------------------------------------------------ runWithResolvedToken
\* fn(token) is called: server.js:258 and :265.
CallFn(s, token, at) ==
  [s EXCEPT !.pc = at, !.l.token = token, !.log = Append(@, Ev("fn", token, Undefined))]

\* The run ends: it returns (Ok) or throws.
Finish(s, r) == [s EXCEPT !.pc = "done", !.result = r]

\* Resolved without the tests of :251 and :262: fn is called with whatever
\* fetchEnvToken returned.
Resolved_Unchecked(s, token) ==
  IF ~s.l.forceRefresh THEN CallFn([s EXCEPT !.l.usedEnvToken = TRUE], token, "fn1")
  ELSE CallFn(s, token, "fn2")

\* await fetchEnvToken(...) yields token: server.js:251-258 after the first
\* call, :262-265 after the forced one.
Resolved(s, token) ==
  IF ~s.l.forceRefresh
  THEN IF Falsy(token) THEN Finish(s, missingTokenError)
       ELSE CallFn([s EXCEPT !.l.usedEnvToken = TRUE], token, "fn1")
  ELSE IF Falsy(token) THEN Finish(s, s.l.error)
       ELSE CallFn(s, token, "fn2")

\* Rejected that never resumes the caller.
Rejected_Hang(s, error) == s

\* await fetchEnvToken(...) throws: nothing in runWithResolvedToken catches
\* it, neither at :250 nor inside the catch block at :261.
Rejected(s, error) == Finish(s, error)

\* ------------------------------------------------------------ fetchEnvToken
\* A new exchange of caller p for the identity and the secret given.
NewExchange(p, s, email, password) ==
  LET i == Cardinality(Started(s.exch)) + 1
  IN IF i > MaxExch THEN [s EXCEPT !.ok = FALSE]
     ELSE [s EXCEPT !.envTokenPromise = i,
                    !.exch[i] = [NoExch EXCEPT !.st = "login", !.email = email,
                                               !.password = password, !.by = p],
                    !.log = Append(@, Ev("getToken", email, password)),
                    !.l.awaiting = i,
                    !.pc = "awaitToken"]

\* AwaitPromise without the test of envTokenPromise: every caller that finds
\* no cached token starts an exchange of its own.
AwaitPromise_NoSingleFlight(p, s) == NewExchange(p, s, s.l.email, s.l.password)

\* AwaitPromise with the arguments of getToken in the wrong order.
AwaitPromise_Swapped(p, s) ==
  IF s.envTokenPromise = 0 THEN NewExchange(p, s, s.l.password, s.l.email)
  ELSE [s EXCEPT !.l.awaiting = s.envTokenPromise, !.pc = "awaitToken"]

\* server.js:209-227: start the exchange unless one is pending, return the promise.
AwaitPromise(p, s) ==
  IF s.envTokenPromise = 0 THEN NewExchange(p, s, s.l.email, s.l.password)
  ELSE [s EXCEPT !.l.awaiting = s.envTokenPromise, !.pc = "awaitToken"]

\* server.js:206-208, then the exchange.
AfterRead(p, s) ==
  IF ~Falsy(s.cachedEnvToken) THEN Resolved(s, s.cachedEnvToken)
  ELSE AwaitPromise(p, s)

\* server.js:195-197: read the store unless the cache is loaded.
AfterRemove(p, s) ==
  IF ~s.cacheLoaded THEN [s EXCEPT !.pc = "readToken"]
  ELSE AfterRead(p, s)

\* server.js:158-165: the direct token is configured.
UseDirectToken(s, cfg) ==
  Resolved([s EXCEPT !.cachedEnvUsesDirectToken = TRUE,
                     !.cachedEnvEmail = cfg.email,
                     !.cachedEnvToken = cfg.directToken,
                     !.envTokenPromise = 0,
                     !.cacheLoaded = TRUE], cfg.directToken)

\* UseCredentials without the reset of server.js:167-172.
UseCredentials_KeepDirect(p, s, cfg, forceRefresh) ==
  IF Falsy(cfg.email) \/ Falsy(cfg.password) THEN Resolved(s, Undefined)
  ELSE LET s2 == IF cfg.email # s.cachedEnvEmail
                 THEN [s EXCEPT !.cachedEnvEmail = cfg.email, !.cachedEnvToken = Empty,
                                !.envTokenPromise = 0, !.cacheLoaded = FALSE]
                 ELSE s
       IN IF forceRefresh
          THEN [s2 EXCEPT !.cachedEnvToken = Empty, !.envTokenPromise = 0,
                          !.cacheLoaded = FALSE, !.pc = "removeToken"]
          ELSE AfterRemove(p, s2)

\* server.js:167-194: no direct token is configured.
UseCredentials(p, s, cfg, forceRefresh) ==
  LET s1 == IF s.cachedEnvUsesDirectToken
            THEN [s EXCEPT !.cachedEnvUsesDirectToken = FALSE, !.cachedEnvToken = Empty,
                           !.envTokenPromise = 0, !.cacheLoaded = FALSE]
            ELSE s
  IN IF Falsy(cfg.email) \/ Falsy(cfg.password) THEN Resolved(s1, Undefined)
     ELSE LET s2 == IF cfg.email # s1.cachedEnvEmail
                    THEN [s1 EXCEPT !.cachedEnvEmail = cfg.email, !.cachedEnvToken = Empty,
                                    !.envTokenPromise = 0, !.cacheLoaded = FALSE]
                    ELSE s1
          IN IF forceRefresh
             THEN [s2 EXCEPT !.cachedEnvToken = Empty, !.envTokenPromise = 0,
                             !.cacheLoaded = FALSE, !.pc = "removeToken"]
             ELSE AfterRemove(p, s2)

\* server.js:155-156: the call; its parameters and locals, and the
\* configuration it reads.
Enter(s, cfg, forceRefresh) ==
  [s EXCEPT !.l.forceRefresh = forceRefresh,
            !.l.email = cfg.email, !.l.password = cfg.password,
            !.l.directToken = cfg.directToken,
            !.l.storedToken = Undefined, !.l.awaiting = 0,
            !.log = Append(@, Ev("fetchEnvToken", Flag(forceRefresh), Undefined))]

\* fetchEnvToken that returns the token in memory before it looks at the
\* configuration.
fetchEnvToken_Masked(p, s, forceRefresh) ==
  LET cfg == getEnvConfig(env)
  IN IF ~forceRefresh /\ s.cacheLoaded /\ ~Falsy(s.cachedEnvToken)
     THEN Resolved(Enter(s, cfg, forceRefresh), s.cachedEnvToken)
     ELSE IF ~Falsy(cfg.directToken)
     THEN UseDirectToken(Enter(s, cfg, forceRefresh), cfg)
     ELSE UseCredentials(p, Enter(s, cfg, forceRefresh), cfg, forceRefresh)

\* fetchEnvToken that prefers the identity and the secret to the direct token.
fetchEnvToken_CredentialsFirst(p, s, forceRefresh) ==
  LET cfg == getEnvConfig(env)
  IN IF ~Falsy(cfg.directToken) /\ (Falsy(cfg.email) \/ Falsy(cfg.password))
     THEN UseDirectToken(Enter(s, cfg, forceRefresh), cfg)
     ELSE UseCredentials(p, Enter(s, cfg, forceRefresh), cfg, forceRefresh)

\* server.js:155-194: fetchEnvToken from its call to its first await.
fetchEnvToken(p, s, forceRefresh) ==
  LET cfg == getEnvConfig(env)
  IN IF ~Falsy(cfg.directToken)
     THEN UseDirectToken(Enter(s, cfg, forceRefresh), cfg)
     ELSE UseCredentials(p, Enter(s, cfg, forceRefresh), cfg, forceRefresh)

\* runWithResolvedToken that takes only undefined for a missing argument.
runWithResolvedToken_EmptyIsToken(p, s, providedToken) ==
  IF providedToken # Undefined THEN CallFn(s, providedToken, "fn1")
  ELSE fetchEnvToken(p, s, FALSE)

\* runWithResolvedToken that marks every token as one of fetchEnvToken.
runWithResolvedToken_AlwaysRefresh(p, s, providedToken) ==
  IF ~Falsy(providedToken) THEN CallFn([s EXCEPT !.l.usedEnvToken = TRUE], providedToken, "fn1")
  ELSE fetchEnvToken(p, s, FALSE)

\* server.js:246-256: the run from its call to its first await.
runWithResolvedToken(p, s, providedToken) ==
  IF ~Falsy(providedToken) THEN CallFn(s, providedToken, "fn1")
  ELSE fetchEnvToken(p, s, FALSE)

\* CatchFn that asks for the token again without forcing a refresh.
CatchFn_NoForce(p, s, error) ==
  IF s.l.usedEnvToken /\ isAuthError(error)
  THEN fetchEnvToken(p, [s EXCEPT !.l.error = error], FALSE)
  ELSE Finish(s, error)

\* server.js:259-268: fn(token) threw error on the first attempt.
CatchFn(p, s, error) ==
  IF s.l.usedEnvToken /\ isAuthError(error)
  THEN fetchEnvToken(p, [s EXCEPT !.l.error = error], TRUE)
  ELSE Finish(s, error)

\* ------------------------------------------------------------ MoneyloverClient.getToken
\* The answer to POST LOGIN_URL: the status, data.request_token and
\* data.login_url (the mark 60, followed by its client parameter if it has one).
LoginResponses ==
  {[ok |-> TRUE, request_token |-> <<61>>, login_url |-> <<60, 62>>],
   [ok |-> FALSE, request_token |-> Undefined, login_url |-> Undefined],
   [ok |-> TRUE, request_token |-> Undefined, login_url |-> <<60, 62>>],
   [ok |-> TRUE, request_token |-> <<61>>, login_url |-> <<60>>]}

\* The answer to POST TOKEN_URL of exchange i.
TokenResponses(i) ==
  {[ok |-> TRUE, access_token |-> AccessToken(i)],
   [ok |-> FALSE, access_token |-> Undefined],
   [ok |-> TRUE, access_token |-> Undefined]}

\* parsed.searchParams.get('client') ?? ''
ClientParam(url) == IF Len(url) > 1 THEN Tail(url) ELSE Empty

\* LoginStep that goes on to the token request whatever the first answer is.
LoginStep_Unchecked(resp, email, password) == None

\* tokenCache.js:149-176: what the first answer makes getToken throw, None
\* when it goes on to the token request.
LoginStep(resp, email, password) ==
  IF ~resp.ok THEN ErrInitiateLogin
  ELSE IF Falsy(resp.request_token) \/ Falsy(resp.login_url) THEN ErrLoginMissing
  ELSE IF Falsy(ClientParam(resp.login_url)) THEN ErrNoClient
  ELSE IF Trim(email) = Empty THEN PlainError(<<5>>)
  ELSE IF Trim(password) = Empty THEN PlainError(<<16>>)
  ELSE None

\* TokenStep that takes every answer of the token endpoint for a success.
TokenStep_Unchecked(resp) == None

\* tokenCache.js:188-197: what the second answer makes getToken throw.
TokenStep(resp) ==
  IF ~resp.ok THEN ErrRetrieveToken
  ELSE IF Falsy(resp.access_token) THEN ErrNoAccessToken
  ELSE None

\* CatchExchange that leaves the pending promise in place.
CatchExchange_KeepPending(i, error) ==
  /\ exch' = [exch EXCEPT ![i].st = "rejected", ![i].error = error]
  /\ UNCHANGED <<env, files, cacheVars, pc, lcl, log, result, runs, overlap, forced>>

\* server.js:222-225: the .catch handler of the chain.
CatchExchange(i, error) ==
  /\ exch' = [exch EXCEPT ![i].st = "rejected", ![i].error = error]
  /\ envTokenPromise' = 0
  /\ UNCHANGED <<env, files, cachedEnvEmail, cachedEnvToken, cacheLoaded,
                 cachedEnvUsesDirectToken, pc, lcl, log, result, runs, overlap, forced>>


\* ------------------------------------------------------------ initial state
\* A fresh process (server.js:105-109); the cache directory holds what an
\* earlier process left there.
Init ==
  /\ env \in EnvConfigs
  /\ files \in [Paths -> {NoFile, Payload(StaleTok)}]
  /\ cachedEnvEmail = Empty
  /\ cachedEnvToken = Empty
  /\ envTokenPromise = 0
  /\ cacheLoaded = FALSE
  /\ cachedEnvUsesDirectToken = FALSE
  /\ exch = [i \in 1..MaxExch |-> NoExch]
  /\ pc = [p \in Procs |-> "idle"]
  /\ lcl = [p \in Procs |-> NoLocals]
  /\ log = [p \in Procs |-> <<>>]
  /\ result = [p \in Procs |-> None]
  /\ runs = 0
  /\ overlap = FALSE
  /\ forced = FALSE

\* ------------------------------------------------------------ the callers
\* runWithResolvedToken is called with providedToken; the argument as the
\* caller wrote it is kept in the locals when `keep` is set.
Call(p, arg, tool, keep) ==
  LET s == [View(p) EXCEPT !.l = IF keep THEN [NoLocals EXCEPT !.arg = arg, !.tool = tool]
                                 ELSE NoLocals,
                           !.log = <<>>, !.result = None]
  IN Commit(p, runWithResolvedToken(p, s, IF tool THEN tokenSchema(arg) ELSE arg))

\* A tool handler (server.js:330-332, the argument through tokenSchema) or a
\* direct caller (the tests) starts a run, also while other runs are under way.
StartRun(p) ==
  /\ pc[p] \in {"idle", "done"}
  /\ runs < MaxRuns
  /\ \E arg \in RawTokens, tool \in BOOLEAN : Call(p, arg, tool, FALSE)
  /\ runs' = runs + 1
  /\ overlap' = (overlap \/ \E q \in Procs \ {p} : pc[q] \notin {"idle", "done"})
  /\ UNCHANGED <<env, files, forced>>

\* The same, one call after the other, the argument kept.
StartCall(p) ==
  /\ \A q \in Procs : pc[q] \in {"idle", "done"}
  /\ runs < MaxRuns
  /\ \E arg \in RawTokens, tool \in BOOLEAN : Call(p, arg, tool, TRUE)
  /\ runs' = runs + 1
  /\ UNCHANGED <<env, files, overlap, forced>>

\* tokenCache.js:62-68: the unlink of removeToken takes effect.
RemoveIO(p) ==
  /\ pc[p] = "removeToken"
  /\ files' = removeToken(files, lcl[p].email)
  /\ pc' = [pc EXCEPT ![p] = "removed"]
  /\ log' = [log EXCEPT ![p] = Append(@, Ev("removeToken", lcl[p].email, Undefined))]
  /\ UNCHANGED <<env, cacheVars, exch, lcl, result, runs, overlap, forced>>

\* server.js:190-195: fetchEnvToken resumes after await removeToken.
RemoveDone(p) ==
  /\ pc[p] = "removed"
  /\ Commit(p, AfterRemove(p, View(p)))
  /\ UNCHANGED <<env, files, runs, overlap, forced>>

\* tokenCache.js:26-29: the readFile of readToken takes effect.
ReadIO(p) ==
  /\ pc[p] = "readToken"
  /\ LET token == readToken(files, lcl[p].email)
     IN /\ lcl' = [lcl EXCEPT ![p].storedToken = token]
        /\ log' = [log EXCEPT ![p] = Append(@, Ev("readToken", lcl[p].email, token))]
  /\ pc' = [pc EXCEPT ![p] = "readDone"]
  /\ UNCHANGED <<env, files, cacheVars, exch, result, runs, overlap, forced>>

\* ReadResume that does not adopt the token it read.
ReadResume_Ignore(p, s) == AfterRead(p, [s EXCEPT !.cacheLoaded = TRUE])

\* server.js:197-205: fetchEnvToken resumes after await readToken, which
\* returned a token or null, or threw (the catch of :201-203).
ReadResume(p, s) ==
  AfterRead(p, [s EXCEPT !.cachedEnvToken = IF s.l.storedToken # Failed /\ ~Falsy(s.l.storedToken)
                                            THEN s.l.storedToken ELSE @,
                         !.cacheLoaded = TRUE])

ReadDone(p) ==
  /\ pc[p] = "readDone"
  /\ Commit(p, ReadResume(p, View(p)))
  /\ UNCHANGED <<env, files, runs, overlap, forced>>

\* The caller resumes after await fetchEnvToken(...): the promise it was
\* given has settled.
PromiseSettled(p) ==
  /\ pc[p] = "awaitToken"
  /\ LET e == exch[lcl[p].awaiting]
     IN \/ e.st = "resolved" /\ Commit(p, Resolved(View(p), e.token))
        \/ e.st = "rejected" /\ Commit(p, Rejected(View(p), e.error))
  /\ UNCHANGED <<env, files, runs, overlap, forced>>

\* server.js:258-268: the first fn(token) returns or throws one of errors.
FnOutcome(p, errors) ==
  /\ pc[p] = "fn1"
  /\ \E outcome \in {Ok} \cup errors :
       LET s == [View(p) EXCEPT !.l.outcomes = Append(@, outcome)]
       IN Commit(p, IF outcome = Ok THEN Finish(s, Ok) ELSE CatchFn(p, s, outcome))
  /\ forced' = (forced \/ lcl'[p].forceRefresh)
  /\ UNCHANGED <<env, files, runs, overlap>>

\* server.js:265: the retried fn(refreshedToken) returns or throws; its
\* outcome is the run's.
RetryOutcome(p, errors) ==
  /\ pc[p] = "fn2"
  /\ \E outcome \in {Ok} \cup errors :
       Commit(p, Finish([View(p) EXCEPT !.l.outcomes = Append(@, outcome)], outcome))
  /\ UNCHANGED <<env, files, runs, overlap, forced>>

FnSettled(p) == FnOutcome(p, OpErrors)

RetrySettled(p) == RetryOutcome(p, OpErrors)

\* ------------------------------------------------------------ the exchanges
\* tokenCache.js:149-186: the login-initiation answer arrives.
LoginAnswered(i) ==
  /\ exch[i].st = "login"
  /\ \E resp \in LoginResponses :
       LET error == LoginStep(resp, exch[i].email, exch[i].password)
       IN IF error = None
          THEN /\ exch' = [exch EXCEPT ![i].st = "token"]
               /\ UNCHANGED <<env, files, cacheVars, pc, lcl, log, result, runs, overlap, forced>>
          ELSE CatchExchange(i, error)

\* tokenCache.js:188-197 and server.js:211-213: the token answer arrives;
\* with a token the .then handler runs up to await writeToken.
TokenAnswered(i) ==
  /\ exch[i].st = "token"
  /\ \E resp \in TokenResponses(i) :
       LET error == TokenStep(resp)
       IN IF error = None
          THEN /\ exch' = [exch EXCEPT ![i].st = "writeToken", ![i].token = resp.access_token]
               /\ UNCHANGED <<env, files, cacheVars, pc, lcl, log, result, runs, overlap, forced>>
          ELSE CatchExchange(i, error)

\* WriteIO that stores the token under the identity configured at that moment.
WriteIO_CurrentIdentity(i) ==
  /\ exch[i].st = "writeToken"
  /\ files' = writeToken(files, getEnvConfig(env).email, exch[i].token)
  /\ exch' = [exch EXCEPT ![i].st = "written"]
  /\ log' = [log EXCEPT ![exch[i].by] = Append(@, Ev("writeToken", exch[i].email, exch[i].token))]
  /\ UNCHANGED <<env, cacheVars, pc, lcl, result, runs, overlap, forced>>

\* tokenCache.js:39-48: the writeFile of writeToken takes effect.
WriteIO(i) ==
  /\ exch[i].st = "writeToken"
  /\ files' = writeToken(files, exch[i].email, exch[i].token)
  /\ exch' = [exch EXCEPT ![i].st = "written"]
  /\ log' = [log EXCEPT ![exch[i].by] = Append(@, Ev("writeToken", exch[i].email, exch[i].token))]
  /\ UNCHANGED <<env, cacheVars, pc, lcl, result, runs, overlap, forced>>

\* server.js:217-220: the .then handler resumes after await writeToken.
WriteDone(i) ==
  /\ exch[i].st = "written"
  /\ cachedEnvToken' = exch[i].token
  /\ cacheLoaded' = TRUE
  /\ envTokenPromise' = 0
  /\ exch' = [exch EXCEPT ![i].st = "resolved"]
  /\ UNCHANGED <<env, files, cachedEnvEmail, cachedEnvUsesDirectToken, pc, lcl, log, result,
                 runs, overlap, forced>>

\* The steps of the store, of the exchanges and of the callers that wait for them.
StepIO ==
  \/ \E p \in Procs : RemoveIO(p)
  \/ \E p \in Procs : RemoveDone(p)
  \/ \E p \in Procs : ReadIO(p)
  \/ \E p \in Procs : ReadDone(p)
  \/ \E p \in Procs : PromiseSettled(p)
  \/ \E i \in 1..MaxExch : LoginAnswered(i)
  \/ \E i \in 1..MaxExch : TokenAnswered(i)
  \/ \E i \in 1..MaxExch : WriteIO(i)
  \/ \E i \in 1..MaxExch : WriteDone(i)

\* What the callers and the exchanges do once a run is under way.
Step ==
  \/ \E p \in Procs : FnSettled(p)
  \/ \E p \in Procs : RetrySettled(p)
  \/ StepIO

Next ==
  \/ \E p \in Procs : StartRun(p)
  \/ Step

NextCalls ==
  \/ \E p \in Procs : StartCall(p)
  \/ Step

Spec == Init /\ [][Next]_vars

\* Calls one after the other, each remembering its argument.
SpecCalls == Init /\ [][NextCalls]_vars


\* ------------------------------------------------------------ store failures
\* tokenCache.js:62-67: fs.unlink fails with a code other than ENOENT (EACCES,
\* EPERM, EBUSY); removeToken rethrows, fetchEnvToken warns and goes on
\* (server.js:189-193).  The file is as it was.
RemoveFail(p) ==
  /\ pc[p] = "removeToken"
  /\ pc' = [pc EXCEPT ![p] = "removed"]
  /\ log' = [log EXCEPT ![p] = Append(@, Ev("removeToken", lcl[p].email, Failed))]
  /\ UNCHANGED <<env, files, cacheVars, exch, lcl, result, runs, overlap, forced>>

NextFault ==
  \/ \E p \in Procs : StartRun(p)
  \/ Step
  \/ \E p \in Procs : RemoveFail(p)

\* Concurrent runs over a store whose deletions can fail.
SpecFault == Init /\ [][NextFault]_vars


\* tokenCache.js:26-34: fs.readFile fails with a code other than ENOENT (EACCES,
\* EISDIR, EIO); readToken rethrows.
ReadFail(p) ==
  /\ pc[p] = "readToken"
  /\ lcl' = [lcl EXCEPT ![p].storedToken = Failed]
  /\ log' = [log EXCEPT ![p] = Append(@, Ev("readToken", lcl[p].email, Failed))]
  /\ pc' = [pc EXCEPT ![p] = "readDone"]
  /\ UNCHANGED <<env, files, cacheVars, exch, result, runs, overlap, forced>>

\* What a writeToken that threw can leave on the disk: nothing new (mkdir or
\* writeFile failed at once), a damaged file (writeFile failed half way), or
\* the record itself (chmod failed after writeFile: tokenCache.js:48-55).
WriteFailOutcomes(f, email, token) ==
  {f, writeToken(f, email, token), [f EXCEPT ![getTokenPath(email)] = Corrupt]}

\* WriteFail that rejects the promise of the exchange.
WriteFail_Fatal(i) == CatchExchange(i, PlainError(<<206>>))

\* tokenCache.js:42-55: writeToken throws; the .then handler warns and goes
\* on (server.js:212-216).
WriteFail(i) ==
  /\ exch[i].st = "writeToken"
  /\ files' \in WriteFailOutcomes(files, exch[i].email, exch[i].token)
  /\ exch' = [exch EXCEPT ![i].st = "written"]
  /\ log' = [log EXCEPT ![exch[i].by] = Append(@, Ev("writeFailed", exch[i].email, exch[i].token))]
  /\ UNCHANGED <<env, cacheVars, pc, lcl, result, runs, overlap, forced>>

\* ------------------------------------------------------------ the store on its own
\* The files of the accounts the store is exercised with.
StorePaths == {getTokenPath(e) : e \in StoreEmails}

\* The arguments of the store calls: the accounts and no account, two tokens
\* and no token.
StoreArgs == StoreEmails \cup {Empty}
StoreTokens == {StaleTok, AccessToken(1), Empty}

\* server.js:105-109 at module load, no call made yet.
FreshProcess ==
  /\ cachedEnvEmail = Empty
  /\ cachedEnvToken = Empty
  /\ envTokenPromise = 0
  /\ cacheLoaded = FALSE
  /\ cachedEnvUsesDirectToken = FALSE
  /\ exch = [i \in 1..MaxExch |-> NoExch]
  /\ pc = [p \in Procs |-> "idle"]
  /\ lcl = [p \in Procs |-> NoLocals]
  /\ log = [p \in Procs |-> <<>>]
  /\ result = [p \in Procs |-> None]
  /\ runs = 0
  /\ overlap = FALSE
  /\ forced = FALSE

\* A fresh process over a cache directory whose files hold a token, are
\* missing or are damaged.
InitStore ==
  /\ env = [EMAIL |-> Undefined, PASSWORD |-> Undefined,
            MONEYLOVER_TOKEN |-> Undefined, MONEY_LOVER_TOKEN |-> Undefined]
  /\ files \in [StorePaths -> {NoFile, Payload(StaleTok), Corrupt}]
  /\ FreshProcess

\* One call of the store by caller A, appended to A's log with its result.
StoreCall(event) ==
  /\ Len(log["A"]) < MaxOps
  /\ log' = [log EXCEPT !["A"] = Append(@, event)]
  /\ UNCHANGED <<env, cacheVars, exch, pc, lcl, result, runs, overlap, forced>>

\* tokenCache.js:38-56
StoreWrite(email, token) ==
  /\ files' = writeToken(files, email, token)
  /\ StoreCall(Ev("writeToken", email, token))

\* tokenCache.js:21-36
StoreRead(email) ==
  /\ files' = files
  /\ StoreCall(Ev("readToken", email, readToken(files, email)))

\* tokenCache.js:58-69
StoreRemove(email) ==
  /\ files' = removeToken(files, email)
  /\ StoreCall(Ev("removeToken", email, Undefined))

NextStore ==
  \/ \E email \in StoreArgs, token \in StoreTokens : StoreWrite(email, token)
  \/ \E email \in StoreArgs : StoreRead(email)
  \/ \E email \in StoreArgs : StoreRemove(email)

SpecStore == InitStore /\ [][NextStore]_vars


\* ------------------------------------------------------------ errors of every shape
\* A tool call without token argument, after the previous call has ended.
StartEnvCall(p) ==
  /\ \A q \in Procs : pc[q] \in {"idle", "done"}
  /\ runs < MaxRuns
  /\ Call(p, Undefined, TRUE, FALSE)
  /\ runs' = runs + 1
  /\ UNCHANGED <<env, files, overlap, forced>>

NextErrors ==
  \/ \E p \in Procs : StartEnvCall(p)
  \/ \E p \in Procs : FnOutcome(p, ErrorSamples)
  \/ \E p \in Procs : RetryOutcome(p, OpErrors)
  \/ StepIO

\* Calls one after the other whose operation throws errors of every shape.
SpecErrors == Init /\ [][NextErrors]_vars


\* ------------------------------------------------------------ progress
\* The runs under way.
Active == {q \in Procs : pc[q] \notin {"idle", "done"}}

\* A run is started, also while another is under way, as long as MaxExch
\* leaves two exchanges to every run under way and to this one: no run is cut
\* short by the bound.
StartLive(p) ==
  /\ Cardinality(Started(exch)) + 2 * (Cardinality(Active) + 1) <= MaxExch
  /\ StartRun(p)

NextLive ==
  \/ \E p \in Procs : StartLive(p)
  \/ Step

\* Every I/O that was started completes and every continuation that is ready
\* runs (the event loop): a step of Step is taken while one is possible.
SpecLive == Init /\ [][NextLive]_vars /\ WF_vars(Step)


\* ------------------------------------------------------------ the login tool
\* The getToken calls of the login tool take a place in exch with states of
\* their own: "toolLogin", "toolToken" (the two requests), "toolWrite",
\* "toolWritten" (await writeToken), "toolDone" (formatSuccess) and
\* "toolFailed" (formatError).
ToolStates == {"toolLogin", "toolToken", "toolWrite", "toolWritten"}
ToolCalls == {i \in DOMAIN exch : exch[i].st \in ToolStates \cup {"toolDone", "toolFailed"}}
ToolBusy == \E i \in DOMAIN exch : exch[i].st \in ToolStates

\* The environment and the store the login tool is exercised with.
LoginEnvs ==
  [EMAIL : {Undefined, <<0, 24, 0>>},
   PASSWORD : {Undefined, PasswordX},
   MONEYLOVER_TOKEN : {Undefined, DirectA},
   MONEY_LOVER_TOKEN : {Undefined}]

InitLogin ==
  /\ env \in LoginEnvs
  /\ files \in [StorePaths -> {NoFile, Payload(StaleTok)}]
  /\ FreshProcess

\* server.js:295-297: the login tool is called with email and password, once
\* the calls before it have ended.
LoginCall(email, password) ==
  /\ \A q \in Procs : pc[q] \in {"idle", "done"}
  /\ ~ToolBusy
  /\ Cardinality(ToolCalls) < MaxLogins
  /\ LET i == Cardinality(Started(exch)) + 1
     IN /\ i <= MaxExch
        /\ exch' = [exch EXCEPT ![i] = [NoExch EXCEPT !.st = "toolLogin", !.email = email,
                                                      !.password = password, !.by = "login"]]
  /\ UNCHANGED <<env, files, cacheVars, pc, lcl, log, result, runs, overlap, forced>>

\* server.js:311-313: getToken threw; the tool returns formatError.
LoginFailed(i, error) ==
  /\ exch' = [exch EXCEPT ![i].st = "toolFailed", ![i].error = error]
  /\ UNCHANGED <<env, files, cacheVars, pc, lcl, log, result, runs, overlap, forced>>

\* tokenCache.js:149-176 for the login tool.
ToolLoginAnswered(i) ==
  /\ exch[i].st = "toolLogin"
  /\ \E resp \in LoginResponses :
       LET error == LoginStep(resp, exch[i].email, exch[i].password)
       IN IF error = None
          THEN /\ exch' = [exch EXCEPT ![i].st = "toolToken"]
               /\ UNCHANGED <<env, files, cacheVars, pc, lcl, log, result, runs, overlap, forced>>
          ELSE LoginFailed(i, error)

\* tokenCache.js:188-197 for the login tool; with a token the handler goes on
\* to await writeToken (server.js:299).
ToolTokenAnswered(i) ==
  /\ exch[i].st = "toolToken"
  /\ \E resp \in TokenResponses(i) :
       LET error == TokenStep(resp)
       IN IF error = None
          THEN /\ exch' = [exch EXCEPT ![i].st = "toolWrite", ![i].token = resp.access_token]
               /\ UNCHANGED <<env, files, cacheVars, pc, lcl, log, result, runs, overlap, forced>>
          ELSE LoginFailed(i, error)

\* tokenCache.js:39-48: the writeFile of the login tool's writeToken.
ToolWriteIO(i) ==
  /\ exch[i].st = "toolWrite"
  /\ files' = writeToken(files, exch[i].email, exch[i].token)
  /\ exch' = [exch EXCEPT ![i].st = "toolWritten"]
  /\ UNCHANGED <<env, cacheVars, pc, lcl, log, result, runs, overlap, forced>>

\* LoginCache that leaves the cache alone.
LoginCache_Untouched(c, email, token, envEmail) == c

\* server.js:303-309: the cache after a login for email gave token.
LoginCache(c, email, token, envEmail) ==
  IF email = envEmail /\ ~Falsy(envEmail)
  THEN [c EXCEPT !.cachedEnvEmail = envEmail, !.cachedEnvToken = token,
                 !.cacheLoaded = TRUE, !.cachedEnvUsesDirectToken = FALSE]
  ELSE c

\* server.js:303-310: the handler resumes after await writeToken.
ToolWriteDone(i) ==
  /\ exch[i].st = "toolWritten"
  /\ LET c == LoginCache([cachedEnvEmail |-> cachedEnvEmail, cachedEnvToken |-> cachedEnvToken,
                          cacheLoaded |-> cacheLoaded,
                          cachedEnvUsesDirectToken |-> cachedEnvUsesDirectToken],
                         exch[i].email, exch[i].token, getEnvConfig(env).email)
     IN /\ cachedEnvEmail' = c.cachedEnvEmail
        /\ cachedEnvToken' = c.cachedEnvToken
        /\ cacheLoaded' = c.cacheLoaded
        /\ cachedEnvUsesDirectToken' = c.cachedEnvUsesDirectToken
  /\ exch' = [exch EXCEPT ![i].st = "toolDone"]
  /\ UNCHANGED <<env, files, envTokenPromise, pc, lcl, log, result, runs, overlap, forced>>

\* A tool call without token argument, once the calls before it have ended.
StartAfterLogin(p) ==
  /\ ~ToolBusy
  /\ StartEnvCall(p)

NextLogin ==
  \/ \E email \in StoreEmails : LoginCall(email, PasswordX)
  \/ \E i \in 1..MaxExch : ToolLoginAnswered(i)
  \/ \E i \in 1..MaxExch : ToolTokenAnswered(i)
  \/ \E i \in 1..MaxExch : ToolWriteIO(i)
  \/ \E i \in 1..MaxExch : ToolWriteDone(i)
  \/ \E p \in Procs : StartAfterLogin(p)
  \/ Step

\* The login tool and the other tools, one call at a time.
SpecLogin == InitLogin /\ [][NextLogin]_vars


\* ------------------------------------------------------------ a changing environment
\* The environments the process is in: no account, the first or the second
\* account, with or without a direct token.
EnvChoices ==
  [EMAIL : {Undefined, EmailX, EmailY},
   PASSWORD : {PasswordX},
   MONEYLOVER_TOKEN : {Undefined, DirectA},
   MONEY_LOVER_TOKEN : {Undefined}]

\* Each account's file is missing or holds a token of that account.
InitEnv ==
  /\ env \in EnvChoices
  /\ files \in {f \in [StorePaths -> {NoFile, Payload(StaleTok), Payload(StaleTokY)}] :
                  /\ f[getTokenPath(EmailX)] # Payload(StaleTokY)
                  /\ f[getTokenPath(EmailY)] # Payload(StaleTok)}
  /\ FreshProcess

\* process.env changes between two steps of the server: the account changes
\* from the first to the second, the direct token goes (it is never set anew).
SetEnv(e) ==
  /\ e # env
  /\ e.MONEYLOVER_TOKEN # Undefined => env.MONEYLOVER_TOKEN = e.MONEYLOVER_TOKEN
  /\ e.EMAIL # env.EMAIL => (env.EMAIL = EmailX /\ e.EMAIL = EmailY)
  /\ env' = e
  /\ UNCHANGED <<files, cacheVars, exch, pc, lcl, log, result, runs, overlap, forced>>

\* A tool call without token argument, also while other calls are under way.
StartEnvRun(p) ==
  /\ pc[p] \in {"idle", "done"}
  /\ runs < MaxRuns
  /\ Call(p, Undefined, TRUE, FALSE)
  /\ runs' = runs + 1
  /\ overlap' = (overlap \/ \E q \in Procs \ {p} : pc[q] \notin {"idle", "done"})
  /\ UNCHANGED <<env, files, forced>>

\* The one error the operation throws here: the API's 'unauthenticated'.
AuthErrors == {ApiError(<<24>>, NumCode(1))}

NextEnv ==
  \/ \E e \in EnvChoices : SetEnv(e)
  \/ \E p \in Procs : StartEnvRun(p)
  \/ \E p \in Procs : FnOutcome(p, AuthErrors)
  \/ \E p \in Procs : RetryOutcome(p, AuthErrors)
  \/ StepIO

\* Concurrent runs while the environment changes.
SpecEnv == InitEnv /\ [][NextEnv]_vars


\* ------------------------------------------------------------ every writer of the store
NextWriters ==
  \/ \E e \in EnvChoices : SetEnv(e)
  \/ \E p \in Procs : StartEnvCall(p)
  \/ \E p \in Procs : FnOutcome(p, AuthErrors)
  \/ \E p \in Procs : RetryOutcome(p, AuthErrors)
  \/ StepIO
  \/ \E email \in StoreEmails : LoginCall(email, PasswordX)
  \/ \E i \in 1..MaxExch : ToolLoginAnswered(i)
  \/ \E i \in 1..MaxExch : ToolTokenAnswered(i)
  \/ \E i \in 1..MaxExch : ToolWriteIO(i)
  \/ \E i \in 1..MaxExch : ToolWriteDone(i)

\* The first account is configured, with its secret; each account's file is
\* missing or holds a token of that account.
InitWriters ==
  /\ InitEnv
  /\ env = [EMAIL |-> EmailX, PASSWORD |-> PasswordX,
            MONEYLOVER_TOKEN |-> Undefined, MONEY_LOVER_TOKEN |-> Undefined]

\* The login tool, and the other tools one call after the other, while the
\* environment changes.
SpecWriters == InitWriters /\ [][NextWriters]_vars


\* ------------------------------------------------------------ a store that fails
\* The environment with identity and secret and nothing else.
IdentityEnv ==
  [EMAIL |-> EmailX, PASSWORD |-> PasswordX,
   MONEYLOVER_TOKEN |-> Undefined, MONEY_LOVER_TOKEN |-> Undefined]

\* A fresh process over a cache directory whose record is missing or holds a
\* token.
InitIO ==
  /\ env = IdentityEnv
  /\ files \in [Paths -> {NoFile, Payload(StaleTok)}]
  /\ FreshProcess

NextIO ==
  \/ \E p \in Procs : StartEnvRun(p)
  \/ \E p \in Procs : FnOutcome(p, AuthErrors)
  \/ \E p \in Procs : RetryOutcome(p, AuthErrors)
  \/ StepIO
  \/ \E p \in Procs : RemoveFail(p)
  \/ \E i \in 1..MaxExch : WriteFail(i)

\* Concurrent runs over a store whose writes and deletions can fail.
SpecIO == InitIO /\ [][NextIO]_vars


\* A fresh process over a cache directory whose record is missing, holds a
\* token or is damaged.
InitRead ==
  /\ env = IdentityEnv
  /\ files \in [Paths -> {NoFile, Payload(StaleTok), Corrupt}]
  /\ FreshProcess

NextRead ==
  \/ \E p \in Procs : StartEnvRun(p)
  \/ \E p \in Procs : FnOutcome(p, AuthErrors)
  \/ \E p \in Procs : RetryOutcome(p, AuthErrors)
  \/ StepIO
  \/ \E p \in Procs : ReadFail(p)

\* Concurrent runs over a store whose reads can fail.
SpecRead == InitRead /\ [][NextRead]_vars


\* ------------------------------------------------------------ the client on its own
\* The arguments of getToken: an account and a blank email, a password and none.
GetEmails == {EmailX, SP}
GetPasswords == {PasswordX, Empty}

\* The getToken call under way or the last one made.
LastGet == Cardinality(Started(exch))
GetBusy == \E i \in DOMAIN exch : exch[i].st \in {"login", "token"}

InitClient ==
  /\ env = [EMAIL |-> Undefined, PASSWORD |-> Undefined,
            MONEYLOVER_TOKEN |-> Undefined, MONEY_LOVER_TOKEN |-> Undefined]
  /\ files = [path \in Paths |-> NoFile]
  /\ FreshProcess

\* tokenCache.js:148-149: getToken is called (as the tests call it) and
\* sends POST LOGIN_URL; the log of caller A is the record of this call.
GetTokenCall(email, password) ==
  /\ ~GetBusy
  /\ LastGet < MaxGets
  /\ exch' = [exch EXCEPT ![LastGet + 1] = [NoExch EXCEPT !.st = "login", !.email = email,
                                                          !.password = password, !.by = "A"]]
  /\ log' = [log EXCEPT !["A"] = <<Ev("fetchLogin", Undefined, Undefined)>>]
  /\ UNCHANGED <<env, files, cacheVars, pc, lcl, result, runs, overlap, forced>>

\* tokenCache.js:150-186: the first answer arrives; getToken throws or sends
\* POST TOKEN_URL with the request token and the client parameter.
GetLoginAnswered(i) ==
  /\ exch[i].st = "login"
  /\ \E resp \in LoginResponses :
       LET error == LoginStep(resp, exch[i].email, exch[i].password)
           answer == <<Ev("loginStatus", Flag(resp.ok), Undefined),
                       Ev("loginData", resp.request_token, resp.login_url)>>
       IN IF error = None
          THEN /\ exch' = [exch EXCEPT ![i].st = "token"]
               /\ log' = [log EXCEPT !["A"] = @ \o answer \o
                            <<Ev("fetchToken", resp.request_token, ClientParam(resp.login_url))>>]
          ELSE /\ exch' = [exch EXCEPT ![i].st = "rejected", ![i].error = error]
               /\ log' = [log EXCEPT !["A"] = @ \o answer]
  /\ UNCHANGED <<env, files, cacheVars, pc, lcl, result, runs, overlap, forced>>

\* tokenCache.js:188-197: the second answer arrives; getToken throws or
\* returns the access token.
GetTokenAnswered(i) ==
  /\ exch[i].st = "token"
  /\ \E resp \in TokenResponses(i) :
       LET error == TokenStep(resp)
       IN /\ exch' = IF error = None
                     THEN [exch EXCEPT ![i].st = "resolved", ![i].token = resp.access_token]
                     ELSE [exch EXCEPT ![i].st = "rejected", ![i].error = error]
          /\ log' = [log EXCEPT !["A"] = Append(@, Ev("tokenResponse", Flag(resp.ok), resp.access_token))]
  /\ UNCHANGED <<env, files, cacheVars, pc, lcl, result, runs, overlap, forced>>

NextClient ==
  \/ \E email \in GetEmails, password \in GetPasswords : GetTokenCall(email, password)
  \/ \E i \in 1..MaxExch : GetLoginAnswered(i)
  \/ \E i \in 1..MaxExch : GetTokenAnswered(i)

\* MoneyloverClient.getToken called on its own, one call after the other.
SpecClient == InitClient /\ [][NextClient]_vars


\* ------------------------------------------------------------ what the claims speak of
Config == getEnvConfig(env)

\* The configuration resolves to the identity credential, to the direct
\* token, to nothing.
IdentityOnly == Falsy(Config.directToken) /\ ~Falsy(Config.email) /\ ~Falsy(Config.password)
DirectConfigured == ~Falsy(Config.directToken)
NoCredentials == Falsy(Config.directToken) /\ (Falsy(Config.email) \/ Falsy(Config.password))

\* The events of one kind in a log.
Events(lg, kind) == SelectSeq(lg, LAMBDA e : e.ev = kind)

\* The run of p holds a token that fetchEnvToken gave it.
GotEnvToken(p) == pc[p] \in {"fn1", "fn2", "done"} /\ lcl[p].usedEnvToken

\* The run of p read the store and found no record.
ReadAbsent(p) == \E k \in 1..Len(log[p]) : log[p][k].ev = "readToken" /\ log[p][k].b = Undefined

\* ------------------------------------------------------------ C1
\* C1: identity and secret configured, no direct token, and only unforced
\* fetchEnvToken calls so far, none of whose exchanges failed: at most one
\* exchange was ever started; a caller that found no record in the store holds
\* a token only once exchange 1 exists, and every caller holding a token
\* after an exchange was started holds the token of that one exchange, also
\* when the calls overlap.
C1_SingleFlight ==
  (IdentityOnly /\ ~forced /\ \A i \in DOMAIN exch : exch[i].st # "rejected") =>
    /\ Cardinality(Started(exch)) <= 1
    /\ \A p \in Procs :
         GotEnvToken(p) =>
           /\ ReadAbsent(p) => Started(exch) = {1}
           /\ Started(exch) = {1} => exch[1].token # Undefined /\ lcl[p].token = exch[1].token

\* Both callers read the store before either resumed (so the calls overlap),
\* both found nothing, and both run their operation with the token of exchange 1.
C1_Witness ==
  /\ IdentityOnly /\ ~forced /\ overlap
  /\ \A p \in Procs : pc[p] = "fn1" /\ ReadAbsent(p) /\ lcl[p].token = AccessToken(1)
  /\ Started(exch) = {1}

\* ------------------------------------------------------------ C2
\* C2: in every reachable state at most one authentication exchange (a
\* getToken call that has not settled) is in flight.
C2_AtMostOneInFlight == Cardinality(InFlight(exch)) <= 1


\* ------------------------------------------------------------ C3
\* The first fn(token) of p's run, made with a token of fetchEnvToken, threw
\* an error that isAuthError accepts.
AuthFailedFirst(p) ==
  /\ lcl[p].usedEnvToken
  /\ Len(lcl[p].outcomes) >= 1
  /\ isAuthError(lcl[p].outcomes[1])

\* The forced call of p's run awaited an exchange, and the exchange failed.
RefreshFailed(p) ==
  /\ lcl[p].forceRefresh
  /\ lcl[p].awaiting # 0
  /\ exch[lcl[p].awaiting].st = "rejected"

\* What p's run called after its first fn(token).
AfterFirstFn(p) ==
  LET k == CHOOSE k \in 1..Len(log[p]) :
             log[p][k].ev = "fn" /\ \A j \in 1..(k - 1) : log[p][j].ev # "fn"
  IN SubSeq(log[p], k + 1, Len(log[p]))

\* C3: the configuration resolves to identity and secret, the first attempt
\* of a run without explicit token failed with an authentication error and
\* the exchange of the refresh (C4 has the case that it fails) did not fail.
\* Then the run made one forced fetchEnvToken call and one removeToken for the
\* identity, ran fn once more, with the token of the refresh, and the outcome
\* of that second fn is the outcome of the run.  When no other run overlaps,
\* the refresh is exactly: delete the record, read the store (nothing there),
\* one getToken with identity and secret, persist its token, retry with it.
C3_RefreshOnceRetryOnce ==
  \A p \in Procs :
    (IdentityOnly /\ pc[p] = "done" /\ AuthFailedFirst(p) /\ ~RefreshFailed(p)) =>
      /\ Events(log[p], "fetchEnvToken")
           = <<Ev("fetchEnvToken", Flag(FALSE), Undefined), Ev("fetchEnvToken", Flag(TRUE), Undefined)>>
      /\ Events(log[p], "removeToken") = <<Ev("removeToken", Config.email, Undefined)>>
      /\ Len(Events(log[p], "getToken")) <= 2
      /\ Len(Events(log[p], "fn")) = 2
      /\ log[p][Len(log[p])] = Ev("fn", lcl[p].token, Undefined)
      /\ Len(lcl[p].outcomes) = 2
      /\ result[p] = lcl[p].outcomes[2]
      /\ ~overlap =>
           /\ lcl[p].awaiting # 0
           /\ lcl[p].token = exch[lcl[p].awaiting].token
           /\ AfterFirstFn(p)
                = <<Ev("fetchEnvToken", Flag(TRUE), Undefined),
                    Ev("removeToken", Config.email, Undefined),
                    Ev("readToken", Config.email, Undefined),
                    Ev("getToken", Config.email, Config.password),
                    Ev("writeToken", Config.email, lcl[p].token),
                    Ev("fn", lcl[p].token, Undefined)>>

\* A run on its own whose retry failed again, with an authentication error:
\* that error is the result.
C3_Witness ==
  \E p \in Procs :
    /\ IdentityOnly /\ ~overlap /\ pc[p] = "done" /\ AuthFailedFirst(p)
    /\ Len(lcl[p].outcomes) = 2
    /\ isAuthError(lcl[p].outcomes[2])
    /\ result[p] = lcl[p].outcomes[2]

\* ------------------------------------------------------------ C4
\* C4: when the first attempt failed with an authentication error and the
\* exchange of the forced refresh failed, the run fails with the error of the
\* first attempt.
C4_OriginalErrorRaised ==
  \A p \in Procs :
    (pc[p] = "done" /\ AuthFailedFirst(p) /\ RefreshFailed(p)) => result[p] = lcl[p].outcomes[1]

\* ------------------------------------------------------------ C5
\* The direct token of the configuration: the first of the two keys that is
\* not blank.
ExpectedDirect == IF env.MONEYLOVER_TOKEN = DirectA THEN DirectA ELSE DirectB

\* C5: while a direct token is configured (a value that is not blank),
\* whatever EMAIL and PASSWORD are, every fetchEnvToken call, forced or not,
\* returns that token at once: a run that asked fetchEnvToken has called
\* nothing but fetchEnvToken and fn, never waits for the store or an exchange,
\* runs fn with the direct token only, and no exchange is ever started.
C5_DirectTokenOnly ==
  DirectConfigured =>
    /\ Started(exch) = {}
    /\ \A p \in Procs :
         (Len(log[p]) > 0 /\ Head(log[p]).ev = "fetchEnvToken") =>
           /\ pc[p] \in {"fn1", "fn2", "done"}
           /\ \A k \in 1..Len(log[p]) :
                \/ log[p][k].ev = "fetchEnvToken"
                \/ log[p][k] = Ev("fn", ExpectedDirect, Undefined)

\* Identity and secret are configured as well, and the forced call after an
\* authentication error returned the direct token again.
C5_Witness ==
  \E p \in Procs :
    /\ DirectConfigured /\ ~Falsy(Config.email) /\ ~Falsy(Config.password)
    /\ pc[p] = "fn2" /\ lcl[p].forceRefresh
    /\ lcl[p].token = ExpectedDirect
    /\ files[getTokenPath(Config.email)] = Payload(StaleTok)


\* ------------------------------------------------------------ C6
\* The argument of p's call is a token: not empty and, through a tool, not
\* blank.  The token it stands for: a tool trims it.
ExplicitArg(p) == ~Falsy(lcl[p].arg) /\ (lcl[p].tool => Trim(lcl[p].arg) # Empty)
ExpectedExplicit(p) == IF lcl[p].tool THEN Trim(lcl[p].arg) ELSE lcl[p].arg

\* C6: a run that was given a token calls fn with that token and nothing
\* else (no fetchEnvToken, no store access, no exchange), once, and the outcome
\* of that one fn, an authentication error too, is the outcome of the run;
\* and no step of such a run changes the five cache variables, the files or
\* the exchanges.
C6_ExplicitTokenBypasses ==
  /\ [](\A p \in Procs :
          ExplicitArg(p) =>
            /\ pc[p] \in {"fn1", "done"}
            /\ ~lcl[p].usedEnvToken
            /\ log[p] = <<Ev("fn", ExpectedExplicit(p), Undefined)>>
            /\ pc[p] = "done" => Len(lcl[p].outcomes) = 1 /\ result[p] = lcl[p].outcomes[1])
  /\ [][\A p \in Procs :
          (ExplicitArg(p)' /\ pc'[p] # pc[p]) => UNCHANGED <<cacheVars, files, exch>>]_vars

\* Identity and secret are configured and a token is cached from an earlier
\* run; the run with a token argument ended with the authentication error of
\* its one fn.
C6_Witness ==
  \E p \in Procs :
    /\ IdentityOnly /\ ~Falsy(cachedEnvToken)
    /\ ExplicitArg(p) /\ pc[p] = "done"
    /\ isAuthError(result[p])

\* ------------------------------------------------------------ C7
\* The argument of p's call is missing: undefined, the empty string or,
\* through a tool, blank.
BlankArg(p) ==
  /\ pc[p] # "idle"
  /\ Falsy(lcl[p].arg) \/ (lcl[p].tool /\ Trim(lcl[p].arg) = Empty)

\* C7: a run whose argument is the empty string (through a tool: blank)
\* starts as the run without argument starts from the same state; it asks
\* fetchEnvToken first, calls fn only with tokens of fetchEnvToken, and after
\* an authentication error of its first fn it makes the forced call.
C7_EmptyIsAbsent ==
  \A p \in Procs :
    /\ \A arg \in RawTokens, tool \in BOOLEAN :
         (arg # Undefined /\ (arg = Empty \/ (tool /\ Trim(arg) = Empty))) =>
           runWithResolvedToken(p, View(p), IF tool THEN tokenSchema(arg) ELSE arg)
             = runWithResolvedToken(p, View(p), Undefined)
    /\ BlankArg(p) =>
         /\ Head(log[p]) = Ev("fetchEnvToken", Flag(FALSE), Undefined)
         /\ Len(Events(log[p], "fn")) > 0 => lcl[p].usedEnvToken
         /\ (pc[p] = "done" /\ AuthFailedFirst(p)) =>
              Events(log[p], "fetchEnvToken")
                = <<Ev("fetchEnvToken", Flag(FALSE), Undefined), Ev("fetchEnvToken", Flag(TRUE), Undefined)>>

\* A run called with '' got its token from an exchange, and retries after
\* the refresh.
C7_Witness ==
  \E p \in Procs :
    /\ lcl[p].arg = Empty /\ ~lcl[p].tool
    /\ pc[p] = "fn2"
    /\ Len(Events(log[p], "getToken")) = 2

\* ------------------------------------------------------------ C8
\* C8: neither a direct token nor identity with secret is configured: a
\* run without token argument has called fetchEnvToken once and nothing else,
\* has ended, and its result is the 'Token is required' error; fn was not
\* called and no exchange was ever started.
C8_TokenRequired ==
  NoCredentials =>
    /\ Started(exch) = {}
    /\ \A p \in Procs :
         BlankArg(p) =>
           /\ pc[p] = "done"
           /\ result[p] = missingTokenError
           /\ log[p] = <<Ev("fetchEnvToken", Flag(FALSE), Undefined)>>
           /\ lcl[p].outcomes = <<>>

\* EMAIL is set and PASSWORD is not: the pair is incomplete.
C8_Witness ==
  \E p \in Procs :
    /\ NoCredentials /\ ~Falsy(Config.email)
    /\ BlankArg(p) /\ pc[p] = "done" /\ result[p] = missingTokenError

\* ------------------------------------------------------------ C9
\* C9: identity and secret configured, the first run of the process, no
\* token argument, no record in the store, the exchange gives a token and fn
\* does not fail with an authentication error (C3 has that case).  When fn is
\* called, and when the run has ended, the run has done exactly this: one
\* fetchEnvToken, one readToken for the identity, one getToken with identity
\* and secret, one writeToken of its token under the identity, one fn with
\* that token; nothing was removed and the record holds the token.
C9_FirstRun ==
  \A p \in Procs :
    ( /\ IdentityOnly /\ runs = 1 /\ BlankArg(p) /\ ReadAbsent(p)
      /\ \A i \in DOMAIN exch : exch[i].st # "rejected"
      /\ pc[p] = "fn1" \/ (pc[p] = "done" /\ ~AuthFailedFirst(p)) ) =>
      /\ log[p] = <<Ev("fetchEnvToken", Flag(FALSE), Undefined),
                    Ev("readToken", EmailX, Undefined),
                    Ev("getToken", EmailX, PasswordX),
                    Ev("writeToken", EmailX, AccessToken(1)),
                    Ev("fn", AccessToken(1), Undefined)>>
      /\ Started(exch) = {1}
      /\ files[getTokenPath(EmailX)] = Payload(AccessToken(1))
      /\ pc[p] = "done" => Len(lcl[p].outcomes) = 1 /\ result[p] = lcl[p].outcomes[1]

C9_Witness ==
  \E p \in Procs :
    /\ IdentityOnly /\ runs = 1 /\ BlankArg(p) /\ ReadAbsent(p)
    /\ pc[p] = "done" /\ result[p] = Ok
    /\ lcl[p].token = AccessToken(1)

\* ------------------------------------------------------------ C10
\* C10: an unforced fetchEnvToken call that read the store (the cache was
\* not loaded) and found a token returns that token: the call never waits for
\* an exchange, and when fn is called the run has done one fetchEnvToken, one
\* readToken and one fn with the stored token: no getToken, no writeToken.
C10_StoredTokenReused ==
  \A p \in Procs :
    (~lcl[p].forceRefresh /\ lcl[p].storedToken # Undefined) =>
      /\ pc[p] \in {"readDone", "fn1", "done"}
      /\ pc[p] # "readDone" =>
           /\ lcl[p].token = lcl[p].storedToken
           /\ log[p] = <<Ev("fetchEnvToken", Flag(FALSE), Undefined),
                         Ev("readToken", EmailX, lcl[p].storedToken),
                         Ev("fn", lcl[p].storedToken, Undefined)>>

\* The token an earlier process left is in use and no exchange was started.
C10_Witness ==
  \E p \in Procs :
    /\ pc[p] = "fn1" /\ ~lcl[p].forceRefresh
    /\ lcl[p].storedToken = StaleTok /\ lcl[p].token = StaleTok
    /\ Started(exch) = {}

\* ------------------------------------------------------------ C11
\* The index of the forced fetchEnvToken call in a log, 0 when there is none.
ForcedAt(lg) ==
  IF \E k \in 1..Len(lg) : lg[k] = Ev("fetchEnvToken", Flag(TRUE), Undefined)
  THEN CHOOSE k \in 1..Len(lg) : lg[k] = Ev("fetchEnvToken", Flag(TRUE), Undefined)
  ELSE 0

\* The tokens of the exchanges whose getToken returned and whose writeToken
\* has taken effect.
WrittenTokens == {exch[i].token : i \in {j \in DOMAIN exch : exch[j].st \in {"written", "resolved"}}}

\* C11: in a run's forced refresh every getToken is started after a
\* removeToken for the identity that has returned or thrown; an exchange that
\* failed holds no token and is never in the state of writing, every
\* writeToken a run has seen is of a token an exchange returned, and every
\* record of the store holds what was there at the start or such a token.
C11_DeleteThenExchangeThenWrite ==
  /\ \A p \in Procs :
       \A k \in 1..Len(log[p]) :
         /\ (log[p][k].ev = "getToken" /\ ForcedAt(log[p]) # 0 /\ ForcedAt(log[p]) < k) =>
              \E m \in (ForcedAt(log[p]) + 1)..(k - 1) :
                /\ log[p][m].ev = "removeToken"
                /\ log[p][m].a = log[p][k].a
         /\ log[p][k].ev = "writeToken" =>
              \E i \in DOMAIN exch :
                /\ exch[i].st \in {"written", "resolved"}
                /\ exch[i].token = log[p][k].b /\ ~Falsy(exch[i].token)
  /\ \A i \in DOMAIN exch : exch[i].st = "rejected" => exch[i].token = Undefined
  /\ \A path \in DOMAIN files :
       files[path] \in {NoFile, Payload(StaleTok)} \cup {Payload(tk) : tk \in WrittenTokens}

\* A forced refresh whose removeToken threw, whose own exchange then gave a
\* token that was written and is used for the retry, while another exchange
\* had failed.
C11_Witness ==
  \E p \in Procs :
    /\ pc[p] = "fn2"
    /\ \E m \in 1..Len(log[p]) : log[p][m] = Ev("removeToken", lcl[p].email, Failed)
    /\ lcl[p].awaiting # 0 /\ exch[lcl[p].awaiting].by = p
    /\ files[getTokenPath(lcl[p].email)] = Payload(lcl[p].token)
    /\ \E i \in DOMAIN exch : exch[i].st = "rejected"

\* ------------------------------------------------------------ C12
\* The store calls for identity x among the events k+1..m-1 of a log that
\* change its record.
Touched(lg, x, k, m) ==
  \E j \in (k + 1)..(m - 1) : lg[j].ev \in {"writeToken", "removeToken"} /\ lg[j].a = x

\* C12: for every account x and token t that are not empty, a readToken(x)
\* that follows writeToken(x, t) with no writeToken or removeToken for x in
\* between (calls for other accounts may come between) returns t, whatever
\* the file held before; and a readToken of an account whose file is missing
\* returns undefined: it does not throw.
C12_RoundTrip ==
  LET lg == log["A"]
  IN /\ \A k \in 1..Len(lg), m \in 1..Len(lg) :
          ( /\ k < m
            /\ lg[k].ev = "writeToken" /\ ~Falsy(lg[k].a) /\ ~Falsy(lg[k].b)
            /\ lg[m].ev = "readToken" /\ lg[m].a = lg[k].a
            /\ ~Touched(lg, lg[k].a, k, m) ) => lg[m].b = lg[k].b
     /\ \A x \in StoreEmails : files[getTokenPath(x)] = NoFile => readToken(files, x) = Undefined
     /\ ( /\ Len(lg) > 0 /\ lg[Len(lg)].ev = "readToken" /\ ~Falsy(lg[Len(lg)].a)
          /\ files[getTokenPath(lg[Len(lg)].a)] = NoFile ) => lg[Len(lg)].b = Undefined

\* A token written for X, a token written for Y in between, and X's token
\* read back.
C12_Witness ==
  /\ log["A"] = <<Ev("writeToken", EmailX, AccessToken(1)),
                  Ev("writeToken", EmailY, StaleTok),
                  Ev("readToken", EmailX, AccessToken(1))>>
  /\ files[getTokenPath(EmailY)] = Payload(StaleTok)

\* ------------------------------------------------------------ C13
\* C13: removeToken of an account without a record leaves every file as it
\* is; removing twice gives the store that removing once gives; and a
\* readToken that follows removeToken for the same account, with no
\* writeToken for it in between, returns undefined.
C13_RemoveIdempotent ==
  LET lg == log["A"]
  IN /\ \A x \in StoreArgs :
          /\ (Falsy(x) \/ files[getTokenPath(x)] = NoFile) => removeToken(files, x) = files
          /\ removeToken(removeToken(files, x), x) = removeToken(files, x)
          /\ readToken(removeToken(files, x), x) = Undefined
     /\ \A k \in 1..Len(lg), m \in 1..Len(lg) :
          ( /\ k < m
            /\ lg[k].ev = "removeToken" /\ ~Falsy(lg[k].a)
            /\ lg[m].ev = "readToken" /\ lg[m].a = lg[k].a
            /\ \A j \in (k + 1)..(m - 1) : ~(lg[j].ev = "writeToken" /\ lg[j].a = lg[k].a) )
          => lg[m].b = Undefined

\* X's record is removed twice, the second time with nothing there, and then
\* read; Y's record is still in place.
C13_Witness ==
  /\ log["A"] = <<Ev("removeToken", EmailX, Undefined),
                  Ev("removeToken", EmailX, Undefined),
                  Ev("readToken", EmailX, Undefined)>>
  /\ files[getTokenPath(EmailY)] = Payload(StaleTok)

\* ------------------------------------------------------------ C14
\* The errors the claim names: an API-layer error whose numeric code is 1 or
\* 401, or whose text in lower case contains 'unauth' or 'token'.
AuthClassified(e) ==
  /\ e.name = "MoneyloverApiError"
  /\ \/ e.code \in {NumCode(1), NumCode(401)}
     \/ \E i \in 1..(Len(e.message) - 5) : SubSeq(ToLowerCase(e.message), i, i + 5) = StrUnauth
     \/ \E i \in 1..(Len(e.message) - 4) : SubSeq(ToLowerCase(e.message), i, i + 4) = StrToken

\* C14: when the first fn of a run that got its token from fetchEnvToken
\* throws e, the run makes the forced fetchEnvToken call exactly when e is one
\* of the errors the claim names; for every other e the run has ended with e
\* itself as its result, after one fn and with no call after it: no
\* removeToken, no getToken, no second fn.
C14_RefreshIffAuthError ==
  \A p \in Procs :
    (lcl[p].usedEnvToken /\ Len(lcl[p].outcomes) >= 1 /\ lcl[p].outcomes[1] # Ok) =>
      LET e == lcl[p].outcomes[1]
      IN /\ AuthClassified(e) <=> ForcedAt(log[p]) # 0
         /\ ~AuthClassified(e) =>
              /\ pc[p] = "done"
              /\ result[p] = e
              /\ Len(lcl[p].outcomes) = 1
              /\ AfterFirstFn(p) = <<>>
              /\ Len(Events(log[p], "fn")) = 1

\* Identity and secret are configured and fn threw a plain Error (an HTTP
\* failure, say) with code 401 and the text 'Token': the run ended with it.
C14_Witness ==
  \E p \in Procs :
    /\ IdentityOnly /\ lcl[p].usedEnvToken /\ pc[p] = "done"
    /\ result[p] = [name |-> "Error", code |-> NumCode(401), message |-> <<120, 15, 11, 5, 14>>]
    /\ files[getTokenPath(Config.email)] = Payload(StaleTok)

\* ------------------------------------------------------------ C15
\* The fetchEnvToken calls a run may have made: none, the unforced one, the
\* unforced one and then the forced one.
FetchCalls ==
  {<<>>,
   <<Ev("fetchEnvToken", Flag(FALSE), Undefined)>>,
   <<Ev("fetchEnvToken", Flag(FALSE), Undefined), Ev("fetchEnvToken", Flag(TRUE), Undefined)>>}

\* C15: every run that was started ends; at every moment a run has called
\* fn at most twice and fetchEnvToken at most twice, the second time forced;
\* and once the second fn has settled the run has ended with its outcome,
\* an authentication error too, and has called nothing after that fn.
C15_Terminates ==
  /\ \A p \in Procs : (pc[p] # "idle") ~> (pc[p] = "done")
  /\ [](\A p \in Procs :
          /\ Len(Events(log[p], "fn")) <= 2
          /\ Len(lcl[p].outcomes) <= 2
          /\ Events(log[p], "fetchEnvToken") \in FetchCalls
          /\ Len(lcl[p].outcomes) = 2 =>
               /\ pc[p] = "done"
               /\ result[p] = lcl[p].outcomes[2]
               /\ log[p][Len(log[p])].ev = "fn")

\* Two runs that overlapped have both ended, one of them after a retry that
\* failed with an authentication error again.
C15_Witness ==
  /\ overlap
  /\ \A p \in Procs : pc[p] = "done"
  /\ \E p \in Procs :
       /\ Len(lcl[p].outcomes) = 2
       /\ isAuthError(lcl[p].outcomes[1]) /\ isAuthError(lcl[p].outcomes[2])
       /\ Len(Events(log[p], "getToken")) = 2

C17_NothingPersisted ==
  \A path \in DOMAIN files : files[path] \in {NoFile, Payload(StaleTok)}

\* ------------------------------------------------------------ C18
\* C18: under identity credentials the token a forced fetchEnvToken call
\* returns (the token of the retry) is the token of the exchange that call
\* awaited: it is never one the call read back from the store.
C18_ForcedFromExchange ==
  \A p \in Procs :
    (IdentityOnly /\ lcl[p].forceRefresh /\ pc[p] = "fn2") =>
      /\ lcl[p].awaiting # 0
      /\ lcl[p].token = exch[lcl[p].awaiting].token

\* ------------------------------------------------------------ C19
\* The account a token was issued to: the account whose file held it at the
\* start, or the account of the exchange that returned it.
Owner(tk) ==
  IF tk = StaleTok THEN EmailX
  ELSE IF tk = StaleTokY THEN EmailY
  ELSE IF \E i \in DOMAIN exch : exch[i].token = tk
    THEN exch[CHOOSE i \in DOMAIN exch : exch[i].token = tk].email
  ELSE Empty

\* C19: a fetchEnvToken call that resolved the identity the environment
\* now holds (and no direct token) returns a token of that identity, whatever
\* the environment held before and whatever was in flight when it changed.
C19_TokenOfIdentity ==
  \A p \in Procs :
    ( /\ pc[p] \in {"fn1", "fn2"} /\ lcl[p].usedEnvToken /\ Falsy(lcl[p].directToken)
      /\ lcl[p].email = Config.email ) =>
      Owner(lcl[p].token) = lcl[p].email

\* ------------------------------------------------------------ C20
\* C20: the direct token is never in a file; a fetchEnvToken call that
\* resolved no direct token never returns one; and in every state in which
\* the cache still holds the direct token that the environment has stopped
\* giving, a fetchEnvToken call, forced or not, clears the flag, the token
\* and the loaded mark before anything else and then goes to the store for
\* the identity (removeToken when forced, else readToken), or, without
\* identity and secret, returns no token.
C20_DirectTokenDropped ==
  /\ \A path \in DOMAIN files : files[path].token \notin {DirectA, DirectB}
  /\ \A p \in Procs :
       (pc[p] \in {"fn1", "fn2"} /\ lcl[p].usedEnvToken /\ Falsy(lcl[p].directToken)) =>
         lcl[p].token \notin {DirectA, DirectB}
  /\ (cachedEnvUsesDirectToken /\ ~DirectConfigured) =>
       \A p \in Procs, f \in BOOLEAN :
         LET s == fetchEnvToken(p, View(p), f)
         IN /\ ~s.cachedEnvUsesDirectToken
            /\ s.cachedEnvToken = Empty
            /\ ~s.cacheLoaded
            /\ s.envTokenPromise = 0
            /\ s.exch = exch
            /\ IF NoCredentials THEN s.pc = "done" /\ s.result # Ok
               ELSE s.pc = (IF f THEN "removeToken" ELSE "readToken")

\* The operation failed with the direct token, the direct token went away,
\* and the forced call took the token of an exchange for the identity.
C20_Witness ==
  \E p \in Procs :
    /\ pc[p] = "fn2" /\ Falsy(lcl[p].directToken) /\ ~cachedEnvUsesDirectToken
    /\ Events(log[p], "fn")[1] = Ev("fn", DirectA, Undefined)
    /\ lcl[p].awaiting # 0 /\ lcl[p].token = exch[lcl[p].awaiting].token
    /\ Events(log[p], "writeToken") = <<Ev("writeToken", lcl[p].email, lcl[p].token)>>

\* ------------------------------------------------------------ C21
\* C21: at the step at which exchange i fails, envTokenPromise becomes null,
\* the cached token, the loaded mark and the files stay as they are and the
\* exchange holds no token; a fetchEnvToken call that comes to the exchange
\* step in the state reached starts a new getToken.  A caller that awaits a
\* failed exchange resumes only by ending with the error of that exchange, and
\* no caller ever begins to await an exchange that has failed.
C21_FailurePropagates ==
  [][/\ \A i \in 1..MaxExch :
          (exch[i].st \in {"login", "token"} /\ exch'[i].st = "rejected") =>
            /\ envTokenPromise' = 0
            /\ UNCHANGED <<cachedEnvEmail, cachedEnvToken, cacheLoaded, files>>
            /\ exch'[i].token = Undefined /\ exch'[i].error # None
            /\ \A p \in Procs :
                 LET s == AwaitPromise(p, View(p)')
                 IN s.ok =>
                      /\ s.l.awaiting \notin Started(exch')
                      /\ s.envTokenPromise = s.l.awaiting
                      /\ s.exch[s.l.awaiting].st = "login"
     /\ \A p \in Procs :
          /\ ( /\ pc[p] = "awaitToken" /\ exch[lcl[p].awaiting].st = "rejected"
               /\ pc'[p] # pc[p] ) =>
               pc'[p] = "done" /\ result'[p] = exch[lcl[p].awaiting].error
          /\ (lcl'[p].awaiting # 0 /\ lcl'[p].awaiting # lcl[p].awaiting) =>
               exch'[lcl'[p].awaiting].st \in {"login", "token", "writeToken", "written"}]_vars

\* Two callers awaited exchange 1 and both ended with its error; nothing
\* was cached or written, and the promise is null.
C21_Witness ==
  /\ exch[1].st = "rejected" /\ Started(exch) = {1}
  /\ \A p \in Procs : pc[p] = "done" /\ lcl[p].awaiting = 1 /\ result[p] = exch[1].error
  /\ envTokenPromise = 0 /\ Falsy(cachedEnvToken)
  /\ \A path \in DOMAIN files : files[path] = NoFile

\* A call made after exchange 1 had failed awaits exchange 2, which it started.
C21_Retried ==
  \E p \in Procs, q \in Procs :
    /\ p # q /\ ~overlap
    /\ pc[p] = "done" /\ lcl[p].awaiting = 1 /\ exch[1].st = "rejected"
    /\ pc[q] = "awaitToken" /\ lcl[q].awaiting = 2 /\ exch[2].by = q

\* ------------------------------------------------------------ C22
\* What a run can end with: the value of fn, an error of fn, an error of
\* getToken, the 'Token is required' error.  No error of the store is among them.
RunResults ==
  {None, Ok, missingTokenError, ErrInitiateLogin, ErrLoginMissing, ErrNoClient,
   ErrRetrieveToken, ErrNoAccessToken} \cup OpErrors

\* C22: with writeToken and removeToken able to fail, no run ends with an
\* error of the store.  An exchange that has its token goes on to resolve whether
\* writeToken returned or threw: at the step that resolves it the token is
\* cached, the cache is marked loaded and the promise is null, and every
\* caller that awaited it resumes by calling fn with that token.  A forced call
\* whose removeToken returned or threw goes on to the store read, to a token
\* or to an exchange.
C22_StoreFailuresNotFatal ==
  /\ [](\A p \in Procs : result[p] \in RunResults)
  /\ [][/\ \A i \in 1..MaxExch :
             /\ (exch[i].st = "writeToken" /\ exch'[i] # exch[i]) => exch'[i].st = "written"
             /\ (exch[i].st = "written" /\ exch'[i] # exch[i]) =>
                  /\ exch'[i].st = "resolved" /\ exch'[i].token = exch[i].token
                  /\ cachedEnvToken' = exch[i].token /\ cacheLoaded' /\ envTokenPromise' = 0
        /\ \A p \in Procs :
             /\ ( /\ pc[p] = "awaitToken" /\ exch[lcl[p].awaiting].st = "resolved"
                  /\ pc'[p] # pc[p] ) =>
                  /\ pc'[p] \in {"fn1", "fn2"}
                  /\ lcl'[p].token = exch[lcl[p].awaiting].token
                  /\ log'[p] = Append(log[p], Ev("fn", exch[lcl[p].awaiting].token, Undefined))
             /\ (pc[p] = "removeToken" /\ pc'[p] # pc[p]) => pc'[p] = "removed"
             /\ (pc[p] = "removed" /\ pc'[p] # pc[p]) =>
                  pc'[p] \in {"readToken", "awaitToken", "fn2"}]_vars

\* A run whose every store call threw: its first exchange's writeToken, the
\* removeToken of its forced refresh, the writeToken of its second exchange.
\* It retries with the token of the second exchange, which is cached; the
\* record is still missing.
C22_Witness ==
  \E p \in Procs :
    /\ pc[p] = "fn2" /\ lcl[p].token = AccessToken(2) /\ cachedEnvToken = AccessToken(2)
    /\ Events(log[p], "writeFailed")
         = <<Ev("writeFailed", EmailX, AccessToken(1)), Ev("writeFailed", EmailX, AccessToken(2))>>
    /\ \E m \in 1..Len(log[p]) : log[p][m] = Ev("removeToken", EmailX, Failed)
    /\ files[getTokenPath(EmailX)] = NoFile

\* A writeToken that threw, and both callers run fn with the exchange's token.
C22_Waiters ==
  /\ \A p \in Procs : pc[p] = "fn1" /\ lcl[p].awaiting = 1 /\ lcl[p].token = AccessToken(1)
  /\ \E p \in Procs : Events(log[p], "writeFailed") # <<>>
  /\ files[getTokenPath(EmailX)] = Corrupt

\* ------------------------------------------------------------ C23
\* C23: a fetchEnvToken call whose readToken threw (permission denied, a
\* damaged record) fails: it has not gone on to an exchange or to fn, and the
\* run has ended with an error.
C23_ReadErrorFatal ==
  \A p \in Procs :
    lcl[p].storedToken = Failed =>
      /\ pc[p] \in {"readDone", "done"}
      /\ pc[p] = "done" => result[p] # Ok
      /\ lcl[p].awaiting = 0

\* ------------------------------------------------------------ C24
\* C24: every step that changes a record is the removeToken of a forced
\* call that resolved the identity of that record, or the writeToken of an
\* exchange started for the identity of that record by a call that resolved
\* it; the records of all other identities are as they were, whatever the
\* environment holds at that moment.
C24_OnlyOwnRecord ==
  [][\A path \in DOMAIN files :
       files'[path] # files[path] =>
         /\ \A other \in DOMAIN files \ {path} : files'[other] = files[other]
         /\ \/ \E p \in Procs :
                 /\ pc[p] = "removeToken" /\ pc'[p] = "removed"
                 /\ lcl[p].forceRefresh
                 /\ getTokenPath(lcl[p].email) = path
                 /\ files'[path] = NoFile
            \/ \E i \in 1..MaxExch :
                 /\ exch[i].st = "writeToken" /\ exch'[i].st = "written"
                 /\ getTokenPath(exch[i].email) = path
                 /\ lcl[exch[i].by].email = exch[i].email
                 /\ files'[path] = Payload(exch[i].token)]_vars

\* A forced refresh for X whose exchange was in flight when EMAIL changed to
\* Y: X's record was deleted and holds the new token, Y's record is as it was.
C24_Witness ==
  \E i \in 1..MaxExch :
    /\ exch[i].st \in {"written", "resolved"} /\ exch[i].email = EmailX
    /\ lcl[exch[i].by].forceRefresh /\ lcl[exch[i].by].awaiting = i
    /\ Config.email = EmailY
    /\ files[getTokenPath(EmailX)] = Payload(exch[i].token)
    /\ files[getTokenPath(EmailY)] = Payload(StaleTokY)

\* ------------------------------------------------------------ C25
\* A configuration value as the claim counts it: not set and blank are empty.
ValOf(v) == IF v = Undefined THEN Empty ELSE Trim(v)

\* The direct token of an environment: the first of the two keys with a value.
FirstDirect(e) ==
  IF ValOf(e.MONEYLOVER_TOKEN) # Empty THEN ValOf(e.MONEYLOVER_TOKEN)
  ELSE ValOf(e.MONEY_LOVER_TOKEN)

\* C25: getEnvConfig gives, for every environment (checked before the first
\* run, the function having no state), the identity, the secret and the
\* first direct token that has a value.  In every reachable state,
\* whatever the cache holds and whatever the environment was before, a
\* fetchEnvToken call (forced or not) resolves from the environment of that
\* moment: with a direct token it returns that token at once; else with
\* identity and secret it takes them as its own, sets the cache to that
\* identity, clears the direct-token flag, every exchange it starts is for
\* them, and a token it returns at once is not a direct token; else it
\* returns no token and the run fails.
C25_ResolvedPerCall ==
  /\ runs = 0 =>
       \A e \in EnvConfigs \cup EnvChoices :
         getEnvConfig(e) = [email |-> ValOf(e.EMAIL), password |-> ValOf(e.PASSWORD),
                            directToken |-> FirstDirect(e)]
  /\ \A p \in Procs, f \in BOOLEAN :
       LET s == fetchEnvToken(p, View(p), f)
       IN /\ s.l.email = ValOf(env.EMAIL)
          /\ s.l.password = ValOf(env.PASSWORD)
          /\ s.l.directToken = FirstDirect(env)
          /\ s.ok =>
               IF FirstDirect(env) # Empty
               THEN /\ s.pc = (IF f THEN "fn2" ELSE "fn1")
                    /\ s.l.token = FirstDirect(env)
                    /\ s.exch = exch
               ELSE IF ValOf(env.EMAIL) # Empty /\ ValOf(env.PASSWORD) # Empty
               THEN /\ s.cachedEnvEmail = ValOf(env.EMAIL)
                    /\ ~s.cachedEnvUsesDirectToken
                    /\ s.pc \in {"removeToken", "readToken", "awaitToken", "fn1", "fn2"}
                    /\ f => s.pc = "removeToken"
                    /\ s.pc \in {"fn1", "fn2"} => s.l.token \notin {DirectA, DirectB}
                    /\ \A i \in Started(s.exch) \ Started(exch) :
                         /\ s.exch[i].email = ValOf(env.EMAIL)
                         /\ s.exch[i].password = ValOf(env.PASSWORD)
               ELSE /\ s.pc = "done" /\ s.result # Ok
                    /\ s.exch = exch

\* Two calls one after the other: the first ran with the direct token; the
\* direct token was then removed and EMAIL changed, and the second call
\* resolved the second account and runs with the token of its exchange.
C25_Witness ==
  \E p \in Procs, q \in Procs :
    /\ p # q /\ ~overlap
    /\ pc[p] = "done" /\ log[p] = <<Ev("fetchEnvToken", Flag(FALSE), Undefined), Ev("fn", DirectA, Undefined)>>
    /\ lcl[p].email = EmailX
    /\ pc[q] = "fn1" /\ lcl[q].email = EmailY /\ Falsy(lcl[q].directToken)
    /\ lcl[q].awaiting # 0 /\ exch[lcl[q].awaiting].email = EmailY
    /\ lcl[q].token = exch[lcl[q].awaiting].token

\* ------------------------------------------------------------ C26
\* C26: with identity and secret configured and no forced call so far, the
\* runs of the process have read the store at most once between them.
C26_ReadOnce ==
  (IdentityOnly /\ ~forced) =>
    Len(Events(log["A"], "readToken")) + Len(Events(log["B"], "readToken")) <= 1

\* ------------------------------------------------------------ C27
\* C27: a run that got the direct token of the configuration from
\* fetchEnvToken and whose first fn failed with an authentication error has
\* ended with that error after that one fn: no second fn, no store call, no
\* exchange.
C27_NoRecoveryForDirect ==
  \A p \in Procs :
    (DirectConfigured /\ AuthFailedFirst(p)) =>
      /\ pc[p] = "done"
      /\ result[p] = lcl[p].outcomes[1]
      /\ Len(Events(log[p], "fn")) = 1
      /\ \A k \in 1..Len(log[p]) : log[p][k].ev \in {"fetchEnvToken", "fn"}
      /\ Started(exch) = {}

\* ------------------------------------------------------------ C28
\* The exchanges (of fetchEnvToken or of the login tool) that returned a
\* token and whose writeToken has taken effect.
Persisted == {i \in DOMAIN exch : exch[i].st \in {"written", "resolved", "toolWritten", "toolDone"}}

\* C28: in every reachable state the record of each account is missing,
\* holds the token an earlier process left for that account, or holds the
\* token that a getToken call made with that account's email returned; and
\* every writeToken that has taken effect left its token in the record of
\* the email its getToken was called with or was overwritten there by a later
\* one for the same email.
C28_RecordOfItsIdentity ==
  \A x \in StoreEmails :
    LET rec == files[getTokenPath(x)]
    IN /\ \/ rec = NoFile
          \/ rec = Payload(IF x = EmailX THEN StaleTok ELSE StaleTokY)
          \/ \E i \in Persisted :
               /\ exch[i].email = x /\ exch[i].password = PasswordX
               /\ ~Falsy(exch[i].token)
               /\ rec = Payload(exch[i].token)
       /\ \A i \in Persisted :
            exch[i].email # x => rec # Payload(exch[i].token)

\* X's record holds the token of an exchange for X that was written after
\* EMAIL had become Y, and Y's record holds the token of a login for Y.
C28_Witness ==
  \E i \in 1..MaxExch, j \in 1..MaxExch :
    /\ Config.email = EmailY
    /\ exch[i].st = "written" /\ exch[i].email = EmailX
    /\ files[getTokenPath(EmailX)] = Payload(exch[i].token)
    /\ exch[j].st = "toolDone" /\ exch[j].email = EmailY
    /\ files[getTokenPath(EmailY)] = Payload(exch[j].token)

\* ------------------------------------------------------------ C29
\* C29: in every state of the store, writeToken with an empty email or an
\* empty token gives back the files as they are, the record of that email
\* included; readToken with an empty email returns null and removeToken with
\* an empty email gives back the files as they are; and every such call made
\* leaves the files unchanged and, for a read, has null for its result.
C29_EmptyIsNoop ==
  /\ [](/\ \A x \in StoreArgs, tk \in StoreTokens :
             (Falsy(x) \/ Falsy(tk)) => writeToken(files, x, tk) = files
        /\ readToken(files, Empty) = Undefined
        /\ removeToken(files, Empty) = files)
  /\ [][LET lg == log'["A"]
            ev == lg[Len(lg)]
        IN Len(lg) = Len(log["A"]) + 1 =>
             /\ (ev.ev = "writeToken" /\ (ev.a = Empty \/ ev.b = Empty)) => files' = files
             /\ (ev.ev = "readToken" /\ ev.a = Empty) => (ev.b = Undefined /\ files' = files)
             /\ (ev.ev = "removeToken" /\ ev.a = Empty) => files' = files]_vars

\* X has a record; an empty token is written for X and a token is written
\* for no email: X's record is read back as it was, Y still has none.
C29_Witness ==
  /\ Len(log["A"]) = 3
  /\ log["A"][1] = Ev("writeToken", EmailX, Empty)
  /\ log["A"][2] = Ev("writeToken", Empty, AccessToken(1))
  /\ log["A"][3] = Ev("readToken", EmailX, StaleTok)
  /\ files[getTokenPath(EmailY)] = NoFile

\* ------------------------------------------------------------ C30
\* The first answer in the record of a getToken call is a success with a
\* request token and a client parameter.
GrantGiven(lg) ==
  /\ Len(lg) >= 3
  /\ lg[2] = Ev("loginStatus", Flag(TRUE), Undefined)
  /\ lg[3].ev = "loginData"
  /\ ~Falsy(lg[3].a) /\ ~Falsy(lg[3].b) /\ Len(lg[3].b) > 1

\* C30: every getToken call sends the login request first and nothing
\* before its answer; it sends the token request, next and once, only after
\* an answer with a success status, a request token and a client parameter,
\* and with these; after any other first answer it has sent no second request
\* and has thrown; it returns a token only after a second answer with a
\* success status and an access token, and returns that token; every other
\* second answer makes it throw.
C30_TwoStepProtocol ==
  LET lg == log["A"]
      i == LastGet
  IN i > 0 =>
       /\ lg[1] = Ev("fetchLogin", Undefined, Undefined)
       /\ Len(Events(lg, "fetchLogin")) = 1
       /\ exch[i].st = "login" <=> Len(lg) = 1
       /\ Len(lg) > 1 => lg[2].ev = "loginStatus" /\ lg[3].ev = "loginData"
       /\ \A k \in 1..Len(lg) :
            lg[k].ev = "fetchToken" =>
              /\ k = 4 /\ GrantGiven(lg)
              /\ lg[k] = Ev("fetchToken", lg[3].a, Tail(lg[3].b))
       /\ (Len(lg) > 1 /\ ~GrantGiven(lg)) =>
            /\ Len(lg) = 3
            /\ exch[i].st = "rejected" /\ exch[i].error # None /\ exch[i].token = Undefined
       /\ exch[i].st = "token" <=> (Len(lg) = 4 /\ lg[4].ev = "fetchToken")
       /\ exch[i].st = "resolved" <=>
            /\ Len(lg) = 5 /\ lg[4].ev = "fetchToken"
            /\ lg[5].ev = "tokenResponse" /\ lg[5].a = Flag(TRUE) /\ ~Falsy(lg[5].b)
       /\ exch[i].st = "resolved" => exch[i].token = lg[5].b
       /\ exch[i].st = "rejected" => exch[i].token = Undefined /\ exch[i].error # None
       /\ exch[i].st \in {"login", "token", "resolved", "rejected"}

\* A call that failed at the first step (no request token in the answer)
\* and sent nothing more, and a call after it that went through both steps
\* and returned the access token.
C30_Witness ==
  /\ LastGet = 2
  /\ exch[1].st = "rejected" /\ exch[1].error = ErrLoginMissing
  /\ exch[2].st = "resolved" /\ exch[2].token = AccessToken(2)
  /\ log["A"] = <<Ev("fetchLogin", Undefined, Undefined),
                  Ev("loginStatus", Flag(TRUE), Undefined),
                  Ev("loginData", <<61>>, <<60, 62>>),
                  Ev("fetchToken", <<61>>, <<62>>),
                  Ev("tokenResponse", Flag(TRUE), AccessToken(2))>>

\* The first answer was complete, but the email is blank: getToken threw
\* before the token request.
C30_BlankEmail ==
  /\ LastGet = 1 /\ exch[1].st = "rejected" /\ exch[1].email = SP
  /\ GrantGiven(log["A"]) /\ Len(log["A"]) = 3

====
